---- MODULE Spec2Model ----
(***************************************************************************)
(* Model of src/execution/execution_info.py: the class ExecutionInfo.       *)
(*                                                                         *)
(* Time is counted in eighths of a second.  Every multiple of 1/8 in the   *)
(* range of time.time() is an exact binary float, so the subtraction       *)
(* fim - inicio is exact and the '.2f' conversion is the correctly rounded *)
(* (round-half-to-even) decimal of the exact value.                        *)
(***************************************************************************)
EXTENDS Integers, Sequences, FiniteSets

VARIABLES
    now,            \* the host clock, in eighths of a second
    host,           \* what platform.system() / platform.release() report
    data_execucao,  \* self.data_execucao
    inicio,         \* self.inicio
    fim,            \* self.fim
    res,            \* outcome of the last call: what it returned, printed or raised
    ctorTime,       \* history: the clock reading the constructor took
    tStart,         \* history: clock reading of the last iniciar_execucao call
    tEnd,           \* history: clock reading of the last finalizar_execucao call
    prevInicio,     \* history: what self.inicio held before the last iniciar_execucao call
    prevFim,        \* history: what self.fim held before the last finalizar_execucao call
    lastMark,       \* history: which of the two markers was called last
    prevCalc,       \* history: result of a calcular_tempo_execucao since the last marker
    clockMonotonic  \* history: the clock has never run backward

vars == <<now, host, data_execucao, inicio, fim, res, ctorTime, tStart, tEnd, prevInicio, prevFim, lastMark, prevCalc, clockMonotonic>>

(* Bounds *)
MaxTime == 3

(* Python's None and a present float value *)
None == [some |-> FALSE, val |-> 0]
Some(v) == [some |-> TRUE, val |-> v]

Hosts == { [system |-> "Linux", release |-> "6.5.0"],
           [system |-> "Windows", release |-> "10"] }

----------------------------------------------------------------------------
(* Library conversions, computed as Python computes them *)

DigitChar(d) ==
    CASE d = 0 -> "0" [] d = 1 -> "1" [] d = 2 -> "2" [] d = 3 -> "3"
      [] d = 4 -> "4" [] d = 5 -> "5" [] d = 6 -> "6" [] d = 7 -> "7"
      [] d = 8 -> "8" [] d = 9 -> "9"

Digits == { DigitChar(d) : d \in 0..9 }

RECURSIVE DecimalDigits(_)
DecimalDigits(n) ==
    IF n < 10 THEN <<DigitChar(n)>>
    ELSE Append(DecimalDigits(n \div 10), DigitChar(n % 10))

RECURSIVE ZeroPad(_, _)
ZeroPad(s, width) == IF Len(s) >= width THEN s ELSE ZeroPad(<<"0">> \o s, width)

(* datetime.datetime.now() at clock reading t (eighths of a second) *)
datetime_now(t) ==
    [year |-> 2024, month |-> 1, day |-> 1, hour |-> 0,
     minute |-> (t \div 8) \div 60,
     second |-> (t \div 8) % 60,
     microsecond |-> (t % 8) * 125000]

(* dt.strftime("%Y-%m-%d %H:%M:%S") *)
strftime(dt) ==
    ZeroPad(DecimalDigits(dt.year), 4) \o <<"-">> \o
    ZeroPad(DecimalDigits(dt.month), 2) \o <<"-">> \o
    ZeroPad(DecimalDigits(dt.day), 2) \o <<" ">> \o
    ZeroPad(DecimalDigits(dt.hour), 2) \o <<":">> \o
    ZeroPad(DecimalDigits(dt.minute), 2) \o <<":">> \o
    ZeroPad(DecimalDigits(dt.second), 2)

(* float subtraction a - b; an operand that is None raises TypeError *)
PySub(a, b) ==
    IF a.some /\ b.some
    THEN [raised |-> FALSE, val |-> Some(a.val - b.val)]
    ELSE [raised |-> TRUE, val |-> None]

(* format(x, '.2f'): round half to even at the second decimal;             *)
(* a None operand raises TypeError                                         *)
Format2f(x) ==
    IF ~x.some THEN [raised |-> TRUE, text |-> <<>>]
    ELSE LET a == IF x.val < 0 THEN 0 - x.val ELSE x.val
             n == a * 25                       \* |x| in units of 1/200 s
             q == n \div 2
             c == IF n % 2 = 0 \/ q % 2 = 0 THEN q ELSE q + 1
         IN [raised |-> FALSE,
             text |-> (IF x.val < 0 THEN <<"-">> ELSE <<>>) \o
                      DecimalDigits(c \div 100) \o <<".">> \o
                      ZeroPad(DecimalDigits(c % 100), 2)]

----------------------------------------------------------------------------
(* The outcome of a call *)
Outcome(op, raised, val, out) ==
    [op |-> op, raised |-> raised, val |-> val, out |-> out]

(* calcular_tempo with 'or' in place of 'and' *)
calcular_tempo_or(i, f) ==
    IF i.some \/ f.some THEN PySub(f, i)
    ELSE [raised |-> FALSE, val |-> None]

(* calcular_tempo with the operands of the subtraction exchanged *)
calcular_tempo_swapped(i, f) ==
    IF i.some /\ f.some THEN PySub(i, f)
    ELSE [raised |-> FALSE, val |-> None]

(* ExecutionInfo.calcular_tempo_execucao, as a function of the two fields *)
calcular_tempo(i, f) ==
    IF i.some /\ f.some THEN PySub(f, i)
    ELSE [raised |-> FALSE, val |-> None]

(* ExecutionInfo.obter_sistema_operacional, as a function of the host *)
sistema_operacional(h) == <<h.system, "-", h.release>>

Separator == "================================================================="
LabelSO == "SISTEMA OPERACIONAL: "
LabelData == "DATA DE EXECUÇÃO: "
LabelTempo == "TEMPO DE EXECUÇÃO"
Unit == " segundos"

(* tempo_line without the test for None *)
tempo_line_unguarded(tempo_execucao) ==
    LET f == Format2f(tempo_execucao)
    IN [raised |-> f.raised,
        text |-> <<LabelTempo, ": ">> \o f.text \o <<Unit>>]

(* tempo_line printing an absent duration as zero *)
tempo_line_zero(tempo_execucao) ==
    LET f == Format2f(IF tempo_execucao.some THEN tempo_execucao ELSE Some(0))
    IN [raised |-> f.raised,
        text |-> <<LabelTempo, ": ">> \o f.text \o <<Unit>>]

(* The argument of the fourth print of imprimir_info *)
tempo_line(tempo_execucao) ==
    IF tempo_execucao.some
    THEN LET f == Format2f(tempo_execucao)
         IN [raised |-> f.raised,
             text |-> <<LabelTempo, ": ">> \o f.text \o <<Unit>>]
    ELSE [raised |-> FALSE, text |-> <<LabelTempo>>]

(* summary without the closing separator *)
summary_noclose(i, f, d, h) ==
    LET t == calcular_tempo(i, f)
        l4 == tempo_line(t.val)
        head == << <<Separator>>,
                   <<LabelSO>> \o sistema_operacional(h),
                   <<LabelData>> \o strftime(d) >>
    IN IF t.raised THEN [raised |-> TRUE, out |-> <<>>]
       ELSE IF l4.raised THEN [raised |-> TRUE, out |-> head]
       ELSE [raised |-> FALSE, out |-> head \o << l4.text >>]

(* What imprimir_info writes to standard output, line by line; a raise     *)
(* leaves the lines printed before it                                      *)
summary(i, f, d, h) ==
    LET t == calcular_tempo(i, f)
        l4 == tempo_line(t.val)
        head == << <<Separator>>,
                   <<LabelSO>> \o sistema_operacional(h),
                   <<LabelData>> \o strftime(d) >>
    IN IF t.raised THEN [raised |-> TRUE, out |-> <<>>]
       ELSE IF l4.raised THEN [raised |-> TRUE, out |-> head]
       ELSE [raised |-> FALSE, out |-> head \o << l4.text, <<Separator>> >>]

----------------------------------------------------------------------------
NoCalc == [has |-> FALSE, again |-> FALSE, val |-> None]

(* ExecutionInfo.__init__ on a host whose clock reads some time *)
Init ==
    /\ now \in 0..1
    /\ host \in Hosts
    /\ data_execucao = datetime_now(now)
    /\ inicio = None
    /\ fim = None
    /\ res = Outcome("__init__", FALSE, None, <<>>)
    /\ ctorTime = now
    /\ tStart = None
    /\ tEnd = None
    /\ prevInicio = None
    /\ prevFim = None
    /\ lastMark = "none"
    /\ prevCalc = NoCalc
    /\ clockMonotonic = TRUE

(* The host clock advances *)
Tick ==
    /\ now < MaxTime
    /\ now' = now + 1
    /\ res' = Outcome("clock", FALSE, None, <<>>)
    /\ UNCHANGED <<host, data_execucao, inicio, fim, ctorTime, tStart,
                   tEnd, prevInicio, prevFim, lastMark, prevCalc, clockMonotonic>>

(* time.time() is the wall clock: the host may set it back *)
ClockStepBack ==
    /\ now > 0
    /\ \E t \in 0..(now - 1) : now' = t
    /\ clockMonotonic' = FALSE
    /\ res' = Outcome("clock", FALSE, None, <<>>)
    /\ UNCHANGED <<host, data_execucao, inicio, fim, ctorTime,
                   tStart, tEnd, prevInicio, prevFim, lastMark, prevCalc>>

obter_data_execucao ==
    /\ res' = Outcome("obter_data_execucao", FALSE, None, <<strftime(datetime_now(now))>>)
    /\ UNCHANGED <<now, host, data_execucao, inicio, fim, ctorTime,
                   tStart, tEnd, prevInicio, prevFim, lastMark, prevCalc, clockMonotonic>>

(* iniciar_execucao that also stamps the creation date again *)
iniciar_execucao_stamp ==
    /\ inicio' = Some(now)
    /\ data_execucao' = datetime_now(now)
    /\ res' = Outcome("iniciar_execucao", FALSE, None, <<>>)
    /\ tStart' = Some(now)
    /\ lastMark' = "start"
    /\ prevCalc' = NoCalc
    /\ prevInicio' = inicio
    /\ UNCHANGED <<now, host, fim, ctorTime, tEnd, prevFim, clockMonotonic>>

(* iniciar_execucao that keeps the first reading *)
iniciar_execucao_once ==
    /\ inicio' = IF inicio.some THEN inicio ELSE Some(now)
    /\ res' = Outcome("iniciar_execucao", FALSE, None, <<>>)
    /\ tStart' = Some(now)
    /\ lastMark' = "start"
    /\ prevCalc' = NoCalc
    /\ prevInicio' = inicio
    /\ UNCHANGED <<now, host, data_execucao, fim, ctorTime, tEnd, prevFim,
                   clockMonotonic>>

iniciar_execucao ==
    /\ inicio' = Some(now)
    /\ res' = Outcome("iniciar_execucao", FALSE, None, <<>>)
    /\ tStart' = Some(now)
    /\ lastMark' = "start"
    /\ prevCalc' = NoCalc
    /\ prevInicio' = inicio
    /\ UNCHANGED <<now, host, data_execucao, fim, ctorTime, tEnd, prevFim,
                   clockMonotonic>>

(* finalizar_execucao that stores its reading in self.inicio *)
finalizar_execucao_typo ==
    /\ inicio' = Some(now)
    /\ res' = Outcome("finalizar_execucao", FALSE, None, <<>>)
    /\ tEnd' = Some(now)
    /\ lastMark' = "end"
    /\ prevCalc' = NoCalc
    /\ prevFim' = fim
    /\ UNCHANGED <<now, host, data_execucao, fim, ctorTime, tStart, prevInicio,
                   clockMonotonic>>

(* finalizar_execucao that restarts the record: it clears self.inicio *)
finalizar_execucao_restart ==
    /\ fim' = Some(now)
    /\ inicio' = None
    /\ res' = Outcome("finalizar_execucao", FALSE, None, <<>>)
    /\ tEnd' = Some(now)
    /\ lastMark' = "end"
    /\ prevCalc' = NoCalc
    /\ prevFim' = fim
    /\ UNCHANGED <<now, host, data_execucao, ctorTime, tStart, prevInicio,
                   clockMonotonic>>

finalizar_execucao ==
    /\ fim' = Some(now)
    /\ res' = Outcome("finalizar_execucao", FALSE, None, <<>>)
    /\ tEnd' = Some(now)
    /\ lastMark' = "end"
    /\ prevCalc' = NoCalc
    /\ prevFim' = fim
    /\ UNCHANGED <<now, host, data_execucao, inicio, ctorTime, tStart, prevInicio,
                   clockMonotonic>>

(* calcular_tempo_execucao that consumes the end marker *)
calcular_tempo_execucao_consume ==
    /\ LET t == calcular_tempo(inicio, fim)
       IN /\ res' = Outcome("calcular_tempo_execucao", t.raised, t.val, <<>>)
          /\ prevCalc' = IF t.raised THEN prevCalc
                         ELSE [has |-> TRUE, again |-> prevCalc.has, val |-> t.val]
    /\ fim' = None
    /\ UNCHANGED <<now, host, data_execucao, inicio, ctorTime, tStart,
                   tEnd, prevInicio, prevFim, lastMark, clockMonotonic>>

calcular_tempo_execucao ==
    /\ LET t == calcular_tempo(inicio, fim)
       IN /\ res' = Outcome("calcular_tempo_execucao", t.raised, t.val, <<>>)
          /\ prevCalc' = IF t.raised THEN prevCalc
                         ELSE [has |-> TRUE, again |-> prevCalc.has, val |-> t.val]
    /\ UNCHANGED <<now, host, data_execucao, inicio, fim, ctorTime,
                   tStart, tEnd, prevInicio, prevFim, lastMark, clockMonotonic>>

obter_sistema_operacional ==
    /\ res' = Outcome("obter_sistema_operacional", FALSE, None, <<sistema_operacional(host)>>)
    /\ UNCHANGED <<now, host, data_execucao, inicio, fim, ctorTime,
                   tStart, tEnd, prevInicio, prevFim, lastMark, prevCalc, clockMonotonic>>

imprimir_info ==
    /\ LET s == summary(inicio, fim, data_execucao, host)
       IN res' = Outcome("imprimir_info", s.raised, None, s.out)
    /\ UNCHANGED <<now, host, data_execucao, inicio, fim, ctorTime,
                   tStart, tEnd, prevInicio, prevFim, lastMark, prevCalc, clockMonotonic>>

Next ==
    \/ Tick
    \/ ClockStepBack
    \/ obter_data_execucao
    \/ iniciar_execucao
    \/ finalizar_execucao
    \/ calcular_tempo_execucao
    \/ obter_sistema_operacional
    \/ imprimir_info

Spec == Init /\ [][Next]_vars

(* One record on one host whose clock never runs backward *)
InitMonotonic ==
    /\ Init
    /\ now = 0
    /\ host.system = "Linux"

NextMonotonic ==
    \/ Tick
    \/ obter_data_execucao
    \/ iniciar_execucao
    \/ finalizar_execucao
    \/ calcular_tempo_execucao
    \/ obter_sistema_operacional
    \/ imprimir_info

SpecMonotonic == InitMonotonic /\ [][NextMonotonic]_vars

----------------------------------------------------------------------------
(* Vocabulary of the properties *)
startCalled == tStart.some
endCalled == tEnd.some
lastWas(op) == res.op = op
HasDigit(line) == \E k \in 1..Len(line) : line[k] \in Digits
HasUnit(line) == \E k \in 1..Len(line) : line[k] = Unit

(* C1: calcular_tempo_execucao returns None, without raising and never a   *)
(* zero, whenever iniciar_execucao or finalizar_execucao has not yet been  *)
(* called on the record (neither called, or exactly one called).           *)
C1_AbsentUnlessBothCalled ==
    (lastWas("calcular_tempo_execucao") /\ (~startCalled \/ ~endCalled))
        => (~res.raised /\ res.val = None)

C1_Witness ==
    /\ lastWas("calcular_tempo_execucao")
    /\ ~startCalled /\ endCalled
    /\ res.val = None

(* C2: when both markers have been called and the last finalizar_execucao  *)
(* reading t2 is at least the last iniciar_execucao reading t1,            *)
(* calcular_tempo_execucao returns exactly t2 - t1, which is >= 0.         *)
C2_DurationIsEndMinusStart ==
    (lastWas("calcular_tempo_execucao") /\ startCalled /\ endCalled
        /\ tEnd.val >= tStart.val)
        => /\ ~res.raised
           /\ res.val = Some(tEnd.val - tStart.val)
           /\ res.val.val >= 0

C2_Witness ==
    /\ lastWas("calcular_tempo_execucao")
    /\ startCalled /\ endCalled
    /\ tEnd.val > tStart.val
    /\ res.val.some /\ res.val.val = tEnd.val - tStart.val

(* C3, as stated: once set, self.inicio and self.fim keep the value the    *)
(* first iniciar_execucao / finalizar_execucao stored, whatever is called  *)
(* afterwards.                                                             *)
C3_Original ==
    [][ /\ (inicio.some => inicio' = inicio)
        /\ (fim.some => fim' = fim) ]_vars

(* C3, amended: once set, self.inicio and self.fim are never reset to      *)
(* None, and each changes only in a call of its own marker, which stores   *)
(* the newer clock reading.                                                *)
C3_NeverResetOnlyOverwritten ==
    [][ /\ (inicio.some =>
              /\ inicio'.some
              /\ (inicio' # inicio =>
                    res'.op = "iniciar_execucao" /\ inicio' = Some(now')))
        /\ (fim.some =>
              /\ fim'.some
              /\ (fim' # fim =>
                    res'.op = "finalizar_execucao" /\ fim' = Some(now'))) ]_vars

C3_Witness ==
    /\ lastWas("imprimir_info")
    /\ prevInicio.some /\ inicio.some /\ inicio # prevInicio
    /\ prevFim.some /\ fim.some /\ fim # prevFim

(* C4, as stated: with a clock that never runs backward, under any order   *)
(* of marker calls, a duration that calcular_tempo_execucao returns is     *)
(* >= 0.                                                                   *)
C4_Original ==
    (clockMonotonic /\ lastWas("calcular_tempo_execucao") /\ res.val.some)
        => res.val.val >= 0

(* C4, amended: with a clock that never runs backward, a duration that     *)
(* calcular_tempo_execucao returns is >= 0 provided the most recent        *)
(* finalizar_execucao call came after the most recent iniciar_execucao     *)
(* call.                                                                   *)
C4_NonNegativeWhenEndedLast ==
    (clockMonotonic /\ lastWas("calcular_tempo_execucao") /\ res.val.some
        /\ lastMark = "end")
        => res.val.val >= 0

C4_Witness ==
    /\ clockMonotonic
    /\ lastWas("calcular_tempo_execucao")
    /\ lastMark = "end"
    /\ prevInicio.some /\ prevFim.some
    /\ res.val.some /\ res.val.val > 0

(* C5: self.data_execucao always equals the date and time the constructor  *)
(* captured, after any sequence of calls.                                  *)
C5_CreationTimestampFixed ==
    data_execucao = datetime_now(ctorTime)

C5_Witness ==
    /\ lastWas("imprimir_info")
    /\ startCalled /\ endCalled
    /\ tStart.val # ctorTime /\ tEnd.val # ctorTime
    /\ datetime_now(now) # data_execucao

(* C6: a second iniciar_execucao (finalizar_execucao) raises nothing and   *)
(* leaves the field holding the reading of that second call, and a later   *)
(* calcular_tempo_execucao uses the most recent start and end readings.    *)
C6_SecondCallOverwrites ==
    /\ (lastWas("iniciar_execucao") /\ prevInicio.some)
          => (~res.raised /\ inicio = Some(now))
    /\ (lastWas("finalizar_execucao") /\ prevFim.some)
          => (~res.raised /\ fim = Some(now))
    /\ (lastWas("calcular_tempo_execucao") /\ (prevInicio.some \/ prevFim.some)
          /\ startCalled /\ endCalled)
          => res.val = Some(tEnd.val - tStart.val)

C6_Witness ==
    /\ lastWas("iniciar_execucao")
    /\ prevInicio.some
    /\ inicio # prevInicio
    /\ inicio = Some(now)

(* C7: calls are accepted in any order: no call raises, a                  *)
(* calcular_tempo_execucao made once both markers have been called (in     *)
(* either order) returns a value, and calcular_tempo_execucao and          *)
(* imprimir_info are enabled in every state.                               *)
C7_AnyOrderAccepted ==
    /\ ~res.raised
    /\ ENABLED calcular_tempo_execucao
    /\ ENABLED imprimir_info
    /\ (lastWas("calcular_tempo_execucao") /\ startCalled /\ endCalled)
          => res.val.some
    /\ lastWas("imprimir_info") => Len(res.out) > 0

C7_Witness ==
    /\ lastWas("calcular_tempo_execucao")
    /\ clockMonotonic
    /\ startCalled /\ endCalled
    /\ ~prevInicio.some
    /\ lastMark = "start"
    /\ res.val.some /\ res.val.val < 0

(* C8: imprimir_info emits exactly 5 lines in every state: separator,      *)
(* operating-system line, creation-date line, duration line, separator,    *)
(* the first and the last being identical.                                 *)
C8_FiveLines ==
    lastWas("imprimir_info")
        => /\ Len(res.out) = 5
           /\ res.out[1] = <<Separator>>
           /\ res.out[2] = <<LabelSO>> \o sistema_operacional(host)
           /\ res.out[3] = <<LabelData>> \o strftime(data_execucao)
           /\ res.out[4][1] = LabelTempo
           /\ res.out[5] = res.out[1]

C8_Witness ==
    /\ lastWas("imprimir_info")
    /\ Len(res.out) = 5
    /\ HasUnit(res.out[4])
    /\ res.out[5] = res.out[1]

(* C9: the duration line carries a numeric value and the unit exactly when *)
(* both markers have been called; otherwise it is the bare label.          *)
C9_DurationLine ==
    lastWas("imprimir_info")
        => /\ Len(res.out) >= 4
           /\ HasDigit(res.out[4]) <=> (startCalled /\ endCalled)
           /\ HasUnit(res.out[4]) <=> (startCalled /\ endCalled)
           /\ ~(startCalled /\ endCalled) => res.out[4] = <<LabelTempo>>
           /\ (startCalled /\ endCalled) =>
                 res.out[4] = <<LabelTempo, ": ">>
                                \o Format2f(Some(tEnd.val - tStart.val)).text
                                \o <<Unit>>

C9_Witness ==
    /\ lastWas("imprimir_info")
    /\ startCalled /\ ~endCalled
    /\ Len(res.out) >= 4
    /\ res.out[4] = <<LabelTempo>>

(* C10: iniciar_execucao changes only self.inicio, finalizar_execucao only *)
(* self.fim, and calcular_tempo_execucao, obter_sistema_operacional and    *)
(* imprimir_info change none of the three fields, so that a                *)
(* calcular_tempo_execucao repeated with no marker call in between returns *)
(* what the previous one returned.                                         *)
C10_Frame ==
    [][ /\ (res'.op = "iniciar_execucao"
              => fim' = fim /\ data_execucao' = data_execucao)
        /\ (res'.op = "finalizar_execucao"
              => inicio' = inicio /\ data_execucao' = data_execucao)
        /\ (res'.op \in {"calcular_tempo_execucao", "obter_sistema_operacional",
                         "imprimir_info"}
              => /\ inicio' = inicio
                 /\ fim' = fim
                 /\ data_execucao' = data_execucao)
        /\ (res'.op = "calcular_tempo_execucao" /\ prevCalc.has
              => res'.val = prevCalc.val) ]_vars

C10_Witness ==
    /\ lastWas("calcular_tempo_execucao")
    /\ prevCalc.again
    /\ startCalled /\ endCalled
    /\ res.val = prevCalc.val /\ res.val.some

====
